---- MODULE Spec2Model ----
(***************************************************************************)
(* Ingredient-safety resolution and composite scoring pipeline             *)
(* (model2.py: clean_text, match_ingredient, detect_ingredients,           *)
(* evaluate_nutrition, analyze_product; model3.py: the score aggregator).  *)
(*                                                                         *)
(* The functions are pure.  A behaviour is one invocation: Init draws the  *)
(* entry point (scenario) and its arguments, an action runs the function   *)
(* and records what it returned or that it raised.                         *)
(*                                                                         *)
(* Representation                                                          *)
(*   - a Python str is a tuple of one-character strings;                   *)
(*   - None is the tuple None (no str contains a multi-character element); *)
(*   - a float is an exact rational: scores are integers in hundredths,    *)
(*     nutrient values and thresholds are integers in hundredths, weights  *)
(*     are integers in tenths; round(x, 2) is round-half-even on the exact *)
(*     value.                                                              *)
(***************************************************************************)
EXTENDS Integers, Sequences, FiniteSets, TLC

VARIABLES scenario, pc, error,
          ingredient, ingredients_list, threshold, match_result,
          ingredients_input, ingredient_safety_df,
          nutrition_input, nutrition_df,
          ingredient_analysis, nutrition_info, nutrition_pros, nutrition_cons,
          weight_ingredient, weight_nutrition,
          ingr_score, nutri_score, final

vars == <<scenario, pc, error,
          ingredient, ingredients_list, threshold, match_result,
          ingredients_input, ingredient_safety_df,
          nutrition_input, nutrition_df,
          ingredient_analysis, nutrition_info, nutrition_pros, nutrition_cons,
          weight_ingredient, weight_nutrition,
          ingr_score, nutri_score, final>>

(***************************************************************************)
(* Bounds                                                                  *)
(***************************************************************************)
MaxCatalog == 2
MaxIngredients == 3
MaxTable == 2
MaxFindings == 3
MaxPros == 11
MaxCons == 8

(***************************************************************************)
(* Generic helpers                                                         *)
(***************************************************************************)
None == <<"None">>

Min(a, b) == IF a <= b THEN a ELSE b
Max(a, b) == IF a >= b THEN a ELSE b

SeqsUpTo(S, n) == UNION {[1..k -> S] : k \in 0..n}

Range(s) == {s[i] : i \in 1..Len(s)}

\* F applied to the value of v, with v evaluated once (a local assignment)
Bind(v, F(_)) == CHOOSE r \in {F(w) : w \in {v}} : TRUE

(***************************************************************************)
(* Characters: str.lower() and the classes of the two regular expressions  *)
(* of clean_text.                                                          *)
(***************************************************************************)
LowerLetters == {"a", "d", "e", "p", "r", "s", "t"}
UpperLetters == {"T"}
Digits == {"0", "1", "2", "5"}
Whitespace == {" "}

LowerChar(c) == IF c = "T" THEN "t" ELSE c

Lower(s) == [i \in 1..Len(s) |-> LowerChar(s[i])]

\* re.sub(r"[^a-z0-9\s]", " ", text): one character
KeepOrSpace(c) == IF c \in LowerLetters \cup Digits \cup Whitespace THEN c ELSE " "

\* lines 14-15 for one character: lower-cased, then kept or made a blank
CleanChar(c) == KeepOrSpace(LowerChar(c))

\* re.sub(r"\s+", " ", text).strip() over the characters of lines 14-15:
\* runs of blanks become one blank, the blanks at the two ends are cut
RECURSIVE CollapseStrip(_, _, _)
CollapseStrip(text, i, acc) ==
    IF i > Len(text) THEN acc
    ELSE IF CleanChar(text[i]) \in Whitespace
         THEN CollapseStrip(text, i + 1, acc)
         ELSE IF acc # <<>> /\ CleanChar(text[i - 1]) \in Whitespace
              THEN CollapseStrip(text, i + 1, acc \o <<" ", CleanChar(text[i])>>)
              ELSE CollapseStrip(text, i + 1, Append(acc, CleanChar(text[i])))

clean_text(text) == CollapseStrip(text, 1, <<>>)

\* str.split(): the whitespace-separated tokens, in order
RECURSIVE Split(_, _, _, _)
Split(s, i, cur, acc) ==
    IF i > Len(s) THEN (IF cur = <<>> THEN acc ELSE Append(acc, cur))
    ELSE IF s[i] \in Whitespace
         THEN Split(s, i + 1, <<>>, IF cur = <<>> THEN acc ELSE Append(acc, cur))
         ELSE Split(s, i + 1, Append(cur, s[i]), acc)

Tokens(s) == Split(s, 1, <<>>, <<>>)

(***************************************************************************)
(* rapidfuzz.fuzz.ratio: 100 * 2*LCS(a, b) / (|a| + |b|), 100 for two      *)
(* empty strings.  Kept as the exact fraction <<numerator, denominator>>.  *)
(***************************************************************************)
\* one cell of the longest-common-subsequence table; prev and row hold
\* column c at position c + 1
LcsCell(a, bj, prev, j, row) ==
    IF a[j] = bj THEN prev[j] + 1 ELSE Max(prev[j + 1], row[j])

RECURSIVE LcsRow(_, _, _, _, _)
LcsRow(a, bj, prev, j, row) ==
    IF j > Len(a) THEN row
    ELSE Bind(Append(row, LcsCell(a, bj, prev, j, row)),
              LAMBDA next : LcsRow(a, bj, prev, j + 1, next))

RECURSIVE LcsRows(_, _, _, _)
LcsRows(a, b, i, prev) ==
    IF i > Len(b) THEN prev[Len(a) + 1]
    ELSE Bind(LcsRow(a, b[i], prev, 1, <<0>>),
              LAMBDA row : LcsRows(a, b, i + 1, row))

Lcs(a, b) == LcsRows(a, b, 1, [k \in 1..(Len(a) + 1) |-> 0])

fuzz_ratio(a, b) ==
    IF Len(a) + Len(b) = 0 THEN <<100, 1>>
    ELSE <<200 * Lcs(a, b), Len(a) + Len(b)>>

\* p > q and p >= t for fractions with positive denominators
FracGt(p, q) == p[1] * q[2] > q[1] * p[2]
FracGeInt(p, t) == p[1] >= t * p[2]

(***************************************************************************)
(* The strings in use.  clean_text, split and fuzz.ratio are pure: their    *)
(* values on these strings are computed once and looked up by the loops.   *)
(***************************************************************************)
tea == <<"t", "e", "a">>
Tea == <<"T", "e", "a">>
teas == <<"t", "e", "a", "s">>
red_tea == <<"r", "e", "d", " ", "t", "e", "a">>
red_dash_tea == <<"r", "e", "d", "-", "t", "e", "a">>
red == <<"r", "e", "d">>
pea == <<"p", "e", "a">>
dash == <<"-">>

CatalogNames == {tea, Tea, red_tea, red_dash_tea}
RefNames == CatalogNames \cup {red, dash}
InputStrings == {tea, Tea, teas, red_tea, red_dash_tea, red, pea, dash}

CleanTextOf == [s \in InputStrings \cup RefNames |-> clean_text(s)]
CleanStrings == {CleanTextOf[s] : s \in DOMAIN CleanTextOf}
FuzzRatioOf == [p \in CleanStrings \X CleanStrings |-> fuzz_ratio(p[1], p[2])]
TokensOf == [s \in CleanStrings |-> Tokens(s)]

(***************************************************************************)
(* match_ingredient                                                        *)
(***************************************************************************)
DefaultThreshold == 80

\* first loop: <<best_match, highest_score>> after scanning refs i..Len
RECURSIVE BestMatchScan(_, _, _, _, _)
BestMatchScan(ingr_clean, refs, i, best_match, highest_score) ==
    IF i > Len(refs) THEN <<best_match, highest_score>>
    ELSE Bind(CleanTextOf[refs[i]], LAMBDA ref_clean :
         Bind(FuzzRatioOf[<<ingr_clean, ref_clean>>], LAMBDA score :
              IF FracGt(score, highest_score)
              THEN BestMatchScan(ingr_clean, refs, i + 1, refs[i], score)
              ELSE BestMatchScan(ingr_clean, refs, i + 1, best_match, highest_score)))

\* the inner loop of the fallback: some word of the input is a word of ref
SharesWord(ingr_clean, ref) ==
    Bind(TokensOf[CleanTextOf[ref]], LAMBDA ref_words :
    Bind(TokensOf[ingr_clean], LAMBDA words :
         \E k \in 1..Len(words) : words[k] \in Range(ref_words)))

\* second loop: the first ref sharing a word, else the ingredient itself
RECURSIVE TokenFallback(_, _, _, _)
TokenFallback(ingr, ingr_clean, refs, i) ==
    IF i > Len(refs) THEN ingr
    ELSE IF SharesWord(ingr_clean, refs[i]) THEN refs[i]
         ELSE TokenFallback(ingr, ingr_clean, refs, i + 1)

\* (variant: the token fallback tried before the similarity scan)
match_ingredient_token_first(ingr, refs, thr) ==
    Bind(CleanTextOf[ingr], LAMBDA ingr_clean :
    Bind(TokenFallback(ingr, ingr_clean, refs, 1), LAMBDA shared :
    Bind(BestMatchScan(ingr_clean, refs, 1, None, <<0, 1>>), LAMBDA scan :
         IF shared # ingr THEN shared
         ELSE IF FracGeInt(scan[2], thr) THEN scan[1]
         ELSE ingr)))

match_ingredient(ingr, refs, thr) ==
    Bind(CleanTextOf[ingr], LAMBDA ingr_clean :
    Bind(BestMatchScan(ingr_clean, refs, 1, None, <<0, 1>>), LAMBDA scan :
         IF FracGeInt(scan[2], thr) THEN scan[1]
         ELSE TokenFallback(ingr, ingr_clean, refs, 1)))

(***************************************************************************)
(* detect_ingredients                                                      *)
(***************************************************************************)
NoInformation == <<"No information available">>

\* order = {"unsafe": 0, "caution": 1, "safe": 2, "unknown": 3}; order.get(s, 3)
OrderKey(status) ==
    CASE status = "unsafe" -> 0
      [] status = "caution" -> 1
      [] status = "safe" -> 2
      [] OTHER -> 3

\* df[df['ingredient_name'].str.lower() == canonical_name.lower()]: the
\* indices of the selected rows, in order
RECURSIVE SafetyRows(_, _, _, _)
SafetyRows(df, lowered_name, i, rows) ==
    IF i > Len(df) THEN rows
    ELSE IF Lower(df[i].ingredient_name) = lowered_name
         THEN SafetyRows(df, lowered_name, i + 1, Append(rows, i))
         ELSE SafetyRows(df, lowered_name, i + 1, rows)

\* (variant: status and reason read from the first row of the whole frame)
FindingForFirstRow(canonical_name, df) ==
    LET safety_row == SafetyRows(df, Lower(canonical_name), 1, <<>>)
    IN  IF safety_row # <<>>
        THEN [name |-> canonical_name,
              status |-> df[1].safety_status,
              reason |-> df[1].reason_for_unsafety]
        ELSE [name |-> canonical_name,
              status |-> "unknown",
              reason |-> NoInformation]

\* lines 43-53: the finding built from the resolved name
FindingFor(canonical_name, df) ==
    LET safety_row == SafetyRows(df, Lower(canonical_name), 1, <<>>)
    IN  IF safety_row # <<>>
        THEN [name |-> canonical_name,
              status |-> df[safety_row[1]].safety_status,
              reason |-> df[safety_row[1]].reason_for_unsafety]
        ELSE [name |-> canonical_name,
              status |-> "unknown",
              reason |-> NoInformation]

\* the body of the loop over ingredients_input: one finding
Finding(ingr, df, refs) ==
    Bind(match_ingredient(ingr, refs, DefaultThreshold),
         LAMBDA canonical_name : FindingFor(canonical_name, df))

\* sorted(results, key=...): stable, an element goes behind every element
\* already placed whose key is not larger
\* (variant: an element goes in front of the placed elements of equal key)
RECURSIVE InsertByKeyUnstable(_, _, _)
InsertByKeyUnstable(placed, x, i) ==
    IF i > Len(placed) THEN Append(placed, x)
    ELSE IF OrderKey(placed[i].status) >= OrderKey(x.status)
         THEN SubSeq(placed, 1, i - 1) \o <<x>> \o SubSeq(placed, i, Len(placed))
         ELSE InsertByKeyUnstable(placed, x, i + 1)

RECURSIVE InsertByKey(_, _, _)
InsertByKey(placed, x, i) ==
    IF i > Len(placed) THEN Append(placed, x)
    ELSE IF OrderKey(placed[i].status) > OrderKey(x.status)
         THEN SubSeq(placed, 1, i - 1) \o <<x>> \o SubSeq(placed, i, Len(placed))
         ELSE InsertByKey(placed, x, i + 1)

RECURSIVE SortedByStatus(_, _, _)
SortedByStatus(results, i, placed) ==
    IF i > Len(results) THEN placed
    ELSE SortedByStatus(results, i + 1, InsertByKey(placed, results[i], 1))

\* the loop of lines 40-53: results, before the sort
RECURSIVE CollectFindings(_, _, _, _, _)
CollectFindings(inputs, df, refs, i, results) ==
    IF i > Len(inputs) THEN results
    ELSE CollectFindings(inputs, df, refs, i + 1,
                         Append(results, Finding(inputs[i], df, refs)))

UnsortedFindings(inputs, df, refs) == CollectFindings(inputs, df, refs, 1, <<>>)

detect_ingredients(inputs, df, refs) ==
    Bind(UnsortedFindings(inputs, df, refs),
         LAMBDA results : SortedByStatus(results, 1, <<>>))

(***************************************************************************)
(* evaluate_nutrition                                                      *)
(*   a nutrient value is [kind |-> "num", v |-> hundredths],               *)
(*   [kind |-> "str", s |-> text] or [kind |-> "none"] (None / NaN);       *)
(*   nutrition_input is a function from the keys present to such values.   *)
(***************************************************************************)
NumberChars == Digits \cup {"."}

DigitVal(c) ==
    CASE c = "0" -> 0
      [] c = "1" -> 1
      [] c = "2" -> 2
      [] c = "5" -> 5

\* re.findall(r"[\d\.]+", value): the first maximal run, <<>> when there is none
RECURSIVE RunFrom(_, _, _)
RunFrom(s, i, acc) ==
    IF i > Len(s) \/ s[i] \notin NumberChars THEN acc
    ELSE RunFrom(s, i + 1, Append(acc, s[i]))

RECURSIVE FirstNumberRun(_, _)
FirstNumberRun(s, i) ==
    IF i > Len(s) THEN <<>>
    ELSE IF s[i] \in NumberChars THEN RunFrom(s, i, <<>>)
         ELSE FirstNumberRun(s, i + 1)

\* float(run) is defined for digits with at most one "." and at least one digit
IsFloatLiteral(run) ==
    /\ Cardinality({i \in 1..Len(run) : run[i] = "."}) <= 1
    /\ \E i \in 1..Len(run) : run[i] \in Digits

RECURSIVE DigitsValue(_, _, _)
DigitsValue(run, i, acc) ==
    IF i > Len(run) THEN acc
    ELSE DigitsValue(run, i + 1, 10 * acc + DigitVal(run[i]))

\* float(run) in hundredths (digits behind the second decimal are dropped)
FloatOf(run) ==
    LET dots == {i \in 1..Len(run) : run[i] = "."}
        dot == IF dots = {} THEN Len(run) + 1 ELSE CHOOSE i \in dots : TRUE
        whole == DigitsValue(SubSeq(run, 1, dot - 1), 1, 0)
        frac == SubSeq(run, dot + 1, Len(run))
        d1 == IF Len(frac) >= 1 THEN DigitVal(frac[1]) ELSE 0
        d2 == IF Len(frac) >= 2 THEN DigitVal(frac[2]) ELSE 0
    IN  whole * 100 + d1 * 10 + d2

\* (variant: a string without a number counts as 0)
CoerceDefaultZero(value) ==
    IF value.kind = "str"
    THEN LET run == FirstNumberRun(value.s, 1)
         IN  IF run = <<>> THEN <<"none", 0>>
             ELSE IF ~IsFloatLiteral(run) THEN <<"ValueError", 0>>
             ELSE <<"none", FloatOf(run)>>
    ELSE <<"none", value.v>>

\* lines 64-66: <<error, value>>
Coerce(value) ==
    IF value.kind = "str"
    THEN LET run == FirstNumberRun(value.s, 1)
         IN  IF run = <<>> THEN <<"IndexError", 0>>
             ELSE IF ~IsFloatLiteral(run) THEN <<"ValueError", 0>>
             ELSE <<"none", FloatOf(run)>>
    ELSE <<"none", value.v>>

\* f"Low {nutrient} ({note})", f"High ...", f"Balanced {nutrient}" as their parts
LowText(row) == <<"Low", row.nutrient, row.note>>
HighText(row) == <<"High", row.nutrient, row.note>>
BalancedText(row) == <<"Balanced", row.nutrient>>

\* (variant: "if" for the "elif" of line 72, the else then follows the
\* second test alone)
ClassifyIfIf(value, row) ==
    [cons |-> (IF value < row.low_threshold THEN <<LowText(row)>> ELSE <<>>)
              \o (IF value > row.high_threshold THEN <<HighText(row)>> ELSE <<>>),
     pros |-> IF value > row.high_threshold THEN <<>> ELSE <<BalancedText(row)>>]

\* lines 70-75: what one row appends to cons and to pros
Classify(value, row) ==
    IF value < row.low_threshold
    THEN [cons |-> <<LowText(row)>>, pros |-> <<>>]
    ELSE IF value > row.high_threshold
         THEN [cons |-> <<HighText(row)>>, pros |-> <<>>]
         ELSE [cons |-> <<>>, pros |-> <<BalancedText(row)>>]

\* line 62: the row is skipped
Skipped(input, row) ==
    \/ row.nutrient \notin DOMAIN input
    \/ input[row.nutrient].kind = "none"

\* the loop over the rows of nutrition_df; an exception ends the call and
\* nothing is returned
RECURSIVE EvaluateRows(_, _, _, _, _)
EvaluateRows(input, df, i, pros, cons) ==
    IF i > Len(df) THEN [error |-> "none", pros |-> pros, cons |-> cons]
    ELSE IF Skipped(input, df[i]) THEN EvaluateRows(input, df, i + 1, pros, cons)
    ELSE Bind(Coerce(input[df[i].nutrient]), LAMBDA c :
         IF c[1] # "none" THEN [error |-> c[1], pros |-> <<>>, cons |-> <<>>]
         ELSE Bind(Classify(c[2], df[i]), LAMBDA f :
              EvaluateRows(input, df, i + 1, pros \o f.pros, cons \o f.cons)))

evaluate_nutrition(input, df) == EvaluateRows(input, df, 1, <<>>, <<>>)

(***************************************************************************)
(* model3: the score aggregator.  Scores are integers in hundredths.       *)
(***************************************************************************)
\* round(n / d, 0) for d > 0, ties to the even neighbour
RoundHalfEven(n, d) ==
    LET q == n \div d
        r == n - q * d
    IN  IF 2 * r < d THEN q
        ELSE IF 2 * r > d THEN q + 1
        ELSE IF q % 2 = 0 THEN q ELSE q + 1

\* (variant: caution counted like unsafe)
StatusWeightCautionNegative(status) ==
    CASE status = "safe" -> 1
      [] status = "unsafe" -> -1
      [] status = "caution" -> -1
      [] OTHER -> 0

\* (variant: unknown counted like unsafe)
StatusWeightUnknownNegative(status) ==
    CASE status = "safe" -> 1
      [] status = "unsafe" -> -1
      [] status = "unknown" -> -1
      [] OTHER -> 0

\* mapping = {'safe': 1, 'caution': 0, 'unsafe': -1, 'unknown': 0}; .get(s, 0)
\* (the statuses of the model are lower-case already)
StatusWeight(status) ==
    CASE status = "safe" -> 1
      [] status = "unsafe" -> -1
      [] OTHER -> 0

RECURSIVE RawSum(_, _, _)
RawSum(findings, i, raw) ==
    IF i > Len(findings) THEN raw
    ELSE RawSum(findings, i + 1, raw + StatusWeight(findings[i].status))

\* _compute_ingredient_score
compute_ingredient_score(findings) ==
    IF findings = <<>> THEN 500
    ELSE LET n == Len(findings)
             raw == RawSum(findings, 1, 0)
         IN  RoundHalfEven(1000 * (raw + n), 2 * n)

\* nutrition_info.get(key, 0) or 0; values are whole units (g, mg) or None
InfoValue(items, key) ==
    IF key \in DOMAIN items /\ items[key] # -1 THEN items[key] ELSE 0

\* _compute_nutrition_score_from_values, computed in five-hundredths
compute_nutrition_score_from_values(items) ==
    IF DOMAIN items = {} THEN 500
    ELSE LET sugar == InfoValue(items, "sugar_g")
             sodium == InfoValue(items, "sodium_mg")
             fat == InfoValue(items, "total_fat_g")
             protein == InfoValue(items, "protein_g")
             sugar_penalty == Min(50 * sugar, 1250)
             sodium_penalty == Min(sodium, 1000)
             fat_penalty == Min(50 * fat, 750)
             protein_bonus == Min(100 * protein, 1000)
             adj == protein_bonus - sugar_penalty - sodium_penalty - fat_penalty
             score == Max(0, Min(5000, 2500 + adj))
         IN  RoundHalfEven(score, 5)

\* _compute_nutrition_score_from_pros_cons
compute_nutrition_score_from_pros_cons(pros, cons) ==
    Max(0, Min(1000, 500 + 50 * Len(pros) - 70 * Len(cons)))

\* (variant: the pros/cons lists used whenever one of them is not empty)
NutritionScoreProsConsFirst(info, pros, cons) ==
    IF ~info.is_none /\ DOMAIN info.items # {} /\ pros = <<>> /\ cons = <<>>
    THEN compute_nutrition_score_from_values(info.items)
    ELSE compute_nutrition_score_from_pros_cons(pros, cons)

\* lines 87-92; info is [is_none, items]; None and {} are both falsy
NutritionScore(info, pros, cons) ==
    IF ~info.is_none /\ DOMAIN info.items # {}
    THEN compute_nutrition_score_from_values(info.items)
    ELSE compute_nutrition_score_from_pros_cons(pros, cons)

\* (variant: the weights used as given, never divided by their sum)
TotalWeightUnnormalized(w_ing, w_nut) == 10

\* (variant: the sum of the weights without the guard for a zero sum)
TotalWeightUnguarded(w_ing, w_nut) == w_ing + w_nut

\* lines 94-96: total_w in tenths
TotalWeight(w_ing, w_nut) == IF w_ing + w_nut # 0 THEN w_ing + w_nut ELSE 10

\* (variant: the weighted sum rounded without the clamp of line 101)
CombineScoresUnclamped(ingr, nutri, w_ing, w_nut, total_w) ==
    LET sign == IF total_w < 0 THEN -1 ELSE 1
    IN  RoundHalfEven(sign * (ingr * w_ing + nutri * w_nut), sign * total_w)

\* lines 100-102: ingr * (w_ing / total_w) + nutri * (w_nut / total_w),
\* clamped to [0, 10] and rounded; total_w is not 0 here
CombineScores(ingr, nutri, w_ing, w_nut, total_w) ==
    LET sign == IF total_w < 0 THEN -1 ELSE 1
        num == sign * (ingr * w_ing + nutri * w_nut)
        den == sign * total_w
    IN  IF num <= 0 THEN 0
        ELSE IF num >= 1000 * den THEN 1000
        ELSE RoundHalfEven(num, den)

\* compute_safety_score: [error, ingr_score, nutri_score, final]; the
\* divisions of lines 97-98 raise ZeroDivisionError on a zero total_w
compute_safety_score(findings, info, pros, cons, w_ing, w_nut) ==
    LET ingr == compute_ingredient_score(findings)
        nutri == NutritionScore(info, pros, cons)
        total_w == TotalWeight(w_ing, w_nut)
    IN  IF total_w = 0
        THEN [error |-> "ZeroDivisionError", ingr_score |-> ingr,
              nutri_score |-> nutri, final |-> 0 - 1]
        ELSE [error |-> "none", ingr_score |-> ingr, nutri_score |-> nutri,
              final |-> CombineScores(ingr, nutri, w_ing, w_nut, total_w)]

\* line 110: get("nutrition") or get("nutrition_info") or None
Model2Nutrition(model2_output) ==
    IF "nutrition" \in DOMAIN model2_output /\ DOMAIN model2_output["nutrition"] # {}
    THEN [is_none |-> FALSE, items |-> model2_output["nutrition"]]
    ELSE IF "nutrition_info" \in DOMAIN model2_output
            /\ DOMAIN model2_output["nutrition_info"] # {}
         THEN [is_none |-> FALSE, items |-> model2_output["nutrition_info"]]
         ELSE [is_none |-> TRUE, items |-> <<>>]

(***************************************************************************)
(* Inputs                                                                  *)
(***************************************************************************)
DetectInputs == {Tea, red_dash_tea, pea}
Thresholds == {0, 50, DefaultThreshold, 100}

CatalogTiers == {"safe", "caution", "unsafe"}
Tiers == CatalogTiers \cup {"unknown"}

\* a row of ingredients_safety_merged.csv; the reason text is that of the row
CatalogRow(n, t) ==
    [ingredient_name |-> n, safety_status |-> t, reason_for_unsafety |-> <<"reason", n, t>>]

\* names equal up to case and names equal up to punctuation, under
\* different tiers
CatalogRows ==
    {CatalogRow(Tea, "safe"), CatalogRow(tea, "unsafe"),
     CatalogRow(red_tea, "unsafe"), CatalogRow(red_dash_tea, "caution")}

Catalogs == SeqsUpTo(CatalogRows, MaxCatalog)

\* load_data, line 10: ingredients_list = df['ingredient_name'].tolist()
NamesOf(df) == [i \in 1..Len(df) |-> df[i].ingredient_name]

\* rows of nutrition_standards.csv, thresholds in hundredths
ThresholdRows ==
    {[nutrient |-> k, low_threshold |-> b[1], high_threshold |-> b[2], note |-> "per serving"] :
        k \in {"sugar_g", "sodium_mg"}, b \in {<<100, 500>>, <<600, 800>>}}

Tables == SeqsUpTo(ThresholdRows, MaxTable)

Num(v) == [kind |-> "num", v |-> v]
Str(t) == [kind |-> "str", s |-> t]
NoValue == [kind |-> "none"]

\* 0.5, 3, 9, "5g", "1.5", "g", ".", None
NutrientValues ==
    {Num(50), Num(300), Num(900), Str(<<"5", "g">>), Str(<<"1", ".", "5">>),
     Str(<<"g">>), Str(<<".">>), NoValue}

\* fiber_g never has a threshold row
OtherValues == {Num(300), Str(<<"g">>)}

NutritionInputs ==
    UNION {[ks -> NutrientValues] : ks \in SUBSET {"sugar_g", "sodium_mg"}}

WithFiber(input) ==
    {input} \cup {[k \in DOMAIN input \cup {"fiber_g"} |->
                      IF k = "fiber_g" THEN v ELSE input[k]] : v \in OtherValues}

ScoreFinding(t) == [name |-> tea, status |-> t, reason |-> NoInformation]

\* findings handed to compute_safety_score: every short list and the list of
\* the worked example (ingredient sub-score 2.0)
FindingLists ==
    {[i \in 1..Len(ts) |-> ScoreFinding(ts[i])] : ts \in SeqsUpTo(Tiers, MaxFindings)}
    \cup {[i \in 1..5 |-> ScoreFinding(IF i <= 4 THEN "unsafe" ELSE "safe")]}

\* <<weight_ingredient, weight_nutrition>> in tenths: the defaults, those of
\* the application, a zero weight, both zero, a negative weight, a zero sum
Weights ==
    {<<6, 4>>, <<7, 3>>, <<3, 7>>, <<0, 10>>, <<10, 0>>, <<0, 0>>,
     <<10, 0 - 10>>, <<0 - 10, 10>>, <<0 - 10, 3>>, <<0 - 10, 0 - 10>>}

Texts(n) == [i \in 1..n |-> <<"Balanced", "sugar_g">>]

\* numeric snapshots in whole units: each key absent or present, the worked
\* example, a None value, zeros, and a snapshot with none of the four keys
Snapshots ==
    {[k \in ks |-> CASE k = "sugar_g" -> 30 [] k = "sodium_mg" -> 1500
                     [] k = "total_fat_g" -> 20 [] k = "protein_g" -> 10] :
        ks \in SUBSET {"sugar_g", "sodium_mg", "total_fat_g", "protein_g"}}
    \cup {[sugar_g |-> 5, sodium_mg |-> 100, total_fat_g |-> 3, protein_g |-> 10],
          [sugar_g |-> 0 - 1, protein_g |-> 3],
          [sugar_g |-> 0, sodium_mg |-> 0],
          [calories |-> 100]}

ProsConsCounts ==
    {<<p, 0>> : p \in 0..MaxPros} \cup {<<0, c>> : c \in 0..MaxCons}
    \cup {<<2, 1>>, <<6, 3>>}

\* <<nutrition_info, |pros|, |cons|>>
NutritionArgs ==
    {<<[is_none |-> TRUE, items |-> <<>>], n[1], n[2]>> : n \in ProsConsCounts}
    \cup {<<[is_none |-> FALSE, items |-> d], 2, 1>> : d \in Snapshots}

UnsetScore == 0 - 1

(***************************************************************************)
(* Initial states: one entry point and its arguments                       *)
(***************************************************************************)
NoInfo == [is_none |-> TRUE, items |-> <<>>]

Idle ==
    /\ pc = "call"
    /\ error = "none"
    /\ match_result = None
    /\ ingr_score = UnsetScore
    /\ nutri_score = UnsetScore
    /\ final = UnsetScore

NoMatchArgs == ingredient = <<>> /\ threshold = DefaultThreshold

NoProduct == ingredients_input = <<>> /\ nutrition_input = <<>>

NoTables == ingredient_safety_df = <<>> /\ nutrition_df = <<>>

NoScoreArgs ==
    /\ ingredient_analysis = <<>>
    /\ nutrition_info = NoInfo
    /\ nutrition_pros = <<>>
    /\ nutrition_cons = <<>>

DefaultWeights == weight_ingredient = 6 /\ weight_nutrition = 4

InitMatch ==
    /\ scenario = "match_ingredient"
    /\ ingredient \in InputStrings
    /\ ingredients_list \in SeqsUpTo(RefNames, MaxCatalog)
    /\ threshold \in Thresholds
    /\ Idle /\ NoProduct /\ NoTables /\ NoScoreArgs /\ DefaultWeights

InitDetect ==
    /\ scenario = "detect_ingredients"
    /\ ingredients_input \in SeqsUpTo(DetectInputs, MaxIngredients)
    /\ ingredient_safety_df \in Catalogs
    /\ ingredients_list = NamesOf(ingredient_safety_df)
    /\ nutrition_input = <<>>
    /\ nutrition_df = <<>>
    /\ Idle /\ NoMatchArgs /\ NoScoreArgs /\ DefaultWeights

InitNutrition ==
    /\ scenario = "evaluate_nutrition"
    /\ \E base \in NutritionInputs : nutrition_input \in WithFiber(base)
    /\ nutrition_df \in Tables
    /\ ingredients_input = <<>>
    /\ ingredient_safety_df = <<>>
    /\ ingredients_list = <<>>
    /\ Idle /\ NoMatchArgs /\ NoScoreArgs /\ DefaultWeights

InitScore ==
    /\ scenario = "compute_safety_score"
    /\ ingredient_analysis \in FindingLists
    /\ \E a \in NutritionArgs :
          /\ nutrition_info = a[1]
          /\ nutrition_pros = Texts(a[2])
          /\ nutrition_cons = Texts(a[3])
    /\ \E w \in Weights :
          weight_ingredient = w[1] /\ weight_nutrition = w[2]
    /\ ingredients_list = <<>>
    /\ Idle /\ NoMatchArgs /\ NoProduct /\ NoTables

\* the application: analyze_product, then the score of its output
PipelineRows ==
    {r \in CatalogRows : r.ingredient_name \in {Tea, red_tea}}
PipelineTables ==
    {<<>>,
     <<[nutrient |-> "sugar_g", low_threshold |-> 100, high_threshold |-> 500,
        note |-> "per serving"]>>,
     <<[nutrient |-> "sodium_mg", low_threshold |-> 100, high_threshold |-> 500,
        note |-> "per serving"],
       [nutrient |-> "sugar_g", low_threshold |-> 600, high_threshold |-> 800,
        note |-> "per serving"]>>}
PipelineNutrition ==
    {<<>>,
     [sugar_g |-> Num(300)],
     [sugar_g |-> Str(<<"5", "g">>), sodium_mg |-> Num(900)],
     [sugar_g |-> Str(<<"g">>), sodium_mg |-> Num(50)]}

InitPipeline ==
    /\ scenario = "analyze_product"
    /\ ingredients_input \in SeqsUpTo({teas, pea}, MaxIngredients)
    /\ ingredient_safety_df \in SeqsUpTo(PipelineRows, MaxCatalog)
    /\ ingredients_list = NamesOf(ingredient_safety_df)
    /\ nutrition_input \in PipelineNutrition
    /\ nutrition_df \in PipelineTables
    /\ weight_ingredient = 7
    /\ weight_nutrition = 3
    /\ Idle /\ NoMatchArgs /\ NoScoreArgs

Init == InitMatch \/ InitDetect \/ InitNutrition \/ InitScore \/ InitPipeline

(***************************************************************************)
(* Actions: one per function of the public surface                         *)
(***************************************************************************)
MatchIngredient ==
    /\ scenario = "match_ingredient" /\ pc = "call"
    /\ match_result' = match_ingredient(ingredient, ingredients_list, threshold)
    /\ pc' = "returned"
    /\ UNCHANGED <<scenario, error, ingredient, ingredients_list, threshold,
                   ingredients_input, ingredient_safety_df, nutrition_input,
                   nutrition_df, ingredient_analysis, nutrition_info,
                   nutrition_pros, nutrition_cons, weight_ingredient,
                   weight_nutrition, ingr_score, nutri_score, final>>

DetectIngredients ==
    /\ scenario = "detect_ingredients" /\ pc = "call"
    /\ ingredient_analysis' =
          detect_ingredients(ingredients_input, ingredient_safety_df, ingredients_list)
    /\ pc' = "returned"
    /\ UNCHANGED <<scenario, error, ingredient, ingredients_list, threshold,
                   match_result, ingredients_input, ingredient_safety_df,
                   nutrition_input, nutrition_df, nutrition_info,
                   nutrition_pros, nutrition_cons, weight_ingredient,
                   weight_nutrition, ingr_score, nutri_score, final>>

EvaluateNutrition ==
    /\ scenario = "evaluate_nutrition" /\ pc = "call"
    /\ LET r == evaluate_nutrition(nutrition_input, nutrition_df)
       IN  /\ error' = r.error
           /\ nutrition_pros' = r.pros
           /\ nutrition_cons' = r.cons
           /\ pc' = IF r.error = "none" THEN "returned" ELSE "raised"
    /\ UNCHANGED <<scenario, ingredient, ingredients_list, threshold,
                   match_result, ingredients_input, ingredient_safety_df,
                   nutrition_input, nutrition_df, ingredient_analysis,
                   nutrition_info, weight_ingredient, weight_nutrition,
                   ingr_score, nutri_score, final>>

ComputeSafetyScore ==
    /\ scenario = "compute_safety_score" /\ pc = "call"
    /\ LET r == compute_safety_score(ingredient_analysis, nutrition_info,
                                     nutrition_pros, nutrition_cons,
                                     weight_ingredient, weight_nutrition)
       IN  /\ error' = r.error
           /\ ingr_score' = r.ingr_score
           /\ nutri_score' = r.nutri_score
           /\ final' = r.final
           /\ pc' = IF r.error = "none" THEN "returned" ELSE "raised"
    /\ UNCHANGED <<scenario, ingredient, ingredients_list, threshold,
                   match_result, ingredients_input, ingredient_safety_df,
                   nutrition_input, nutrition_df, ingredient_analysis,
                   nutrition_info, nutrition_pros, nutrition_cons,
                   weight_ingredient, weight_nutrition>>

\* analyze_product: detect_ingredients, then evaluate_nutrition; an exception
\* of the second leaves no result dictionary
AnalyzeProduct ==
    /\ scenario = "analyze_product" /\ pc = "call"
    /\ LET found == detect_ingredients(ingredients_input, ingredient_safety_df,
                                       ingredients_list)
           r == evaluate_nutrition(nutrition_input, nutrition_df)
       IN  /\ error' = r.error
           /\ ingredient_analysis' = IF r.error = "none" THEN found ELSE <<>>
           /\ nutrition_pros' = r.pros
           /\ nutrition_cons' = r.cons
           /\ pc' = IF r.error = "none" THEN "analyzed" ELSE "raised"
    /\ UNCHANGED <<scenario, ingredient, ingredients_list, threshold,
                   match_result, ingredients_input, ingredient_safety_df,
                   nutrition_input, nutrition_df, nutrition_info,
                   weight_ingredient, weight_nutrition,
                   ingr_score, nutri_score, final>>

\* the dictionary analyze_product returned (product_name is carried through)
Model2Output ==
    [ingredient_analysis |-> ingredient_analysis,
     nutrition_pros |-> nutrition_pros,
     nutrition_cons |-> nutrition_cons]

ComputeSafetyScoreFromModel2Output ==
    /\ scenario = "analyze_product" /\ pc = "analyzed"
    /\ LET info == Model2Nutrition(Model2Output)
           r == compute_safety_score(Model2Output.ingredient_analysis, info,
                                     Model2Output.nutrition_pros,
                                     Model2Output.nutrition_cons,
                                     weight_ingredient, weight_nutrition)
       IN  /\ nutrition_info' = info
           /\ error' = r.error
           /\ ingr_score' = r.ingr_score
           /\ nutri_score' = r.nutri_score
           /\ final' = r.final
           /\ pc' = IF r.error = "none" THEN "returned" ELSE "raised"
    /\ UNCHANGED <<scenario, ingredient, ingredients_list, threshold,
                   match_result, ingredients_input, ingredient_safety_df,
                   nutrition_input, nutrition_df, ingredient_analysis,
                   nutrition_pros, nutrition_cons,
                   weight_ingredient, weight_nutrition>>

Next ==
    \/ MatchIngredient
    \/ DetectIngredients
    \/ EvaluateNutrition
    \/ ComputeSafetyScore
    \/ AnalyzeProduct
    \/ ComputeSafetyScoreFromModel2Output

Spec == Init /\ [][Next]_vars

(***************************************************************************)
(* Properties                                                              *)
(***************************************************************************)
Returned(name) == scenario = name /\ pc = "returned"

\* detect_ingredients has produced ingredient_analysis
Detected ==
    \/ Returned("detect_ingredients")
    \/ scenario = "analyze_product" /\ pc \in {"analyzed", "returned"}

\* compute_safety_score has returned the three scores
Scored == Returned("compute_safety_score") \/ Returned("analyze_product")

Severity(tier) ==
    CASE tier = "unsafe" -> 0
      [] tier = "caution" -> 1
      [] tier = "safe" -> 2
      [] tier = "unknown" -> 3

IndexPermutations(n) ==
    {p \in [1..n -> 1..n] : \A i, j \in 1..n : p[i] = p[j] => i = j}

\* the finding of every input ingredient, in input order
PerIngredient ==
    [i \in 1..Len(ingredients_input) |->
        Finding(ingredients_input[i], ingredient_safety_df, ingredients_list)]

\* out lists the findings per, each once, by non-decreasing severity, equal
\* tiers in the order of per
StableSeverityOrder(out, per) ==
    /\ Len(out) = Len(per)
    /\ \A i \in 1..(Len(out) - 1) :
          Severity(out[i].status) <= Severity(out[i + 1].status)
    /\ \E p \in IndexPermutations(Len(per)) :
          /\ \A i \in 1..Len(per) : out[i] = per[p[i]]
          /\ \A i, j \in 1..Len(per) :
                (i < j /\ out[i].status = out[j].status) => p[i] < p[j]

\* C1: the findings of detect_ingredients (and of analyze_product) are the
\* per-ingredient findings, one per input ingredient, ordered by
\* non-decreasing severity unsafe < caution < safe < unknown, findings of one
\* tier in the order of their input ingredients.
C1_SeverityOrderStable ==
    Detected =>
        Bind(PerIngredient, LAMBDA per : StableSeverityOrder(ingredient_analysis, per))

\* the sort moved a finding and kept two findings of one tier in input order
C1_Witness ==
    /\ Returned("detect_ingredients")
    /\ Len(ingredient_analysis) = 3
    /\ ingredient_analysis[1].status = "unsafe"
    /\ ingredient_analysis[2].status = "unsafe"
    /\ ingredient_analysis[1].name # ingredient_analysis[2].name
    /\ Bind(PerIngredient, LAMBDA per :
            per[1].status = "unknown" /\ ingredient_analysis[1] = per[2])

InScoreRange(x) == 0 <= x /\ x <= 1000

\* C2: the ingredient sub-score, the nutrition sub-score (numeric-snapshot
\* mode or pros/cons mode) and the final score all lie in [0, 10], for every
\* pair of weights, negative weights and weights summing to zero included.
C2_ScoresInRange ==
    Scored => InScoreRange(ingr_score) /\ InScoreRange(nutri_score) /\ InScoreRange(final)

\* weights 1.0 and -1.0: the weighted sum is ingr - nutri < 0, the clamp acts
C2_Witness ==
    /\ Returned("compute_safety_score")
    /\ weight_ingredient = 10 /\ weight_nutrition = 0 - 10
    /\ ingr_score < nutri_score
    /\ ~nutrition_info.is_none
    /\ final = 0

CountStatus(findings, tier) ==
    Cardinality({i \in 1..Len(findings) : findings[i].status = tier})

Raw(findings) == CountStatus(findings, "safe") - CountStatus(findings, "unsafe")

\* C3 as stated: the sub-score of n > 0 findings equals ((raw + n) / (2n)) * 10
C3_ExactQuotient ==
    (Scored /\ ingredient_analysis # <<>>) =>
        ingr_score * 2 * Len(ingredient_analysis)
            = 1000 * (Raw(ingredient_analysis) + Len(ingredient_analysis))

\* C3: the ingredient sub-score of no findings is 5.0; of n > 0 findings it
\* is ((raw + n) / (2n)) * 10 rounded to two decimals, raw = #safe - #unsafe;
\* all unsafe gives 0, all safe gives 10, only caution/unknown gives 5.0.
C3_IngredientScore ==
    Scored =>
        LET n == Len(ingredient_analysis)
            exact == 1000 * (Raw(ingredient_analysis) + n)
            err == ingr_score * 2 * n - exact
        IN  /\ n = 0 => ingr_score = 500
            /\ n > 0 => (0 - n <= err /\ err <= n)
            /\ (n > 0 /\ CountStatus(ingredient_analysis, "unsafe") = n) => ingr_score = 0
            /\ (n > 0 /\ CountStatus(ingredient_analysis, "safe") = n) => ingr_score = 1000
            /\ (n > 0 /\ CountStatus(ingredient_analysis, "safe") = 0
                      /\ CountStatus(ingredient_analysis, "unsafe") = 0) => ingr_score = 500

\* [caution, caution, unknown] scores 5.0
C3_Witness ==
    /\ Returned("compute_safety_score")
    /\ Len(ingredient_analysis) = 3
    /\ ingredient_analysis[1].status = "caution"
    /\ ingredient_analysis[2].status = "caution"
    /\ ingredient_analysis[3].status = "unknown"
    /\ ingr_score = 500

\* the final score compute_safety_score gives the two sub-scores under other weights
FinalFor(w_ing, w_nut) ==
    CombineScores(ingr_score, nutri_score, w_ing, w_nut, TotalWeight(w_ing, w_nut))

ScaleFactors == {2, 3, 0 - 1}

ScaleInvariant ==
    \A k \in ScaleFactors :
        FinalFor(k * weight_ingredient, k * weight_nutrition) = final

NutritionOnly == (weight_ingredient = 0 /\ weight_nutrition = 10) => final = nutri_score

WorkedExample ==
    (ingr_score = 200 /\ nutri_score = 800 /\ weight_ingredient = 7 /\ weight_nutrition = 3)
        => final = 380

C5_ZeroWeights ==
    (scenario = "compute_safety_score" /\ pc # "call"
        /\ weight_ingredient = 0 /\ weight_nutrition = 0)
        => (pc = "returned" /\ error = "none" /\ final = 0)

C5_Witness ==
    /\ Returned("compute_safety_score")
    /\ weight_ingredient = 0 /\ weight_nutrition = 0
    /\ ingr_score = 1000 /\ nutri_score > 500
    /\ final = 0

UniqueLower(df) ==
    \A i, j \in 1..Len(df) :
        Lower(df[i].ingredient_name) = Lower(df[j].ingredient_name) => i = j

UniqueClean(df) ==
    \A i, j \in 1..Len(df) :
        clean_text(df[i].ingredient_name) = clean_text(df[j].ingredient_name) => i = j

FromCatalog == \A i \in 1..Len(ingredients_input) : ingredients_input[i] \in Range(ingredients_list)

EntryOf(name) ==
    CHOOSE r \in Range(ingredient_safety_df) : r.ingredient_name = name

\* every input name has its own finding carrying the tier and the reason of
\* the catalog entry of that name
TiersMatchEntries ==
    \E p \in IndexPermutations(Len(ingredients_input)) :
        \A i \in 1..Len(ingredients_input) :
            /\ i <= Len(ingredient_analysis)
            /\ ingredient_analysis[i].status = EntryOf(ingredients_input[p[i]]).safety_status
            /\ ingredient_analysis[i].reason = EntryOf(ingredients_input[p[i]]).reason_for_unsafety

\* C6 as stated: catalog names unique up to case suffice for the round trip
C6_RoundTripUniqueLower ==
    (Returned("detect_ingredients") /\ UniqueLower(ingredient_safety_df) /\ FromCatalog)
        => TiersMatchEntries

\* C6: for a catalog whose names are pairwise distinct after normalisation
\* (clean_text) and an ingredient list made of its names, every input name
\* gets a finding with the tier and reason of the catalog entry of that name.
C6_RoundTrip ==
    (Returned("detect_ingredients") /\ UniqueClean(ingredient_safety_df) /\ FromCatalog)
        => TiersMatchEntries

\* both entries of a two-entry catalog looked up by their own names
C6_Witness ==
    /\ Returned("detect_ingredients")
    /\ UniqueClean(ingredient_safety_df)
    /\ Len(ingredient_safety_df) = 2
    /\ ingredients_input = <<Tea, red_dash_tea>>
    /\ FromCatalog
    /\ ingredient_analysis[1].status # ingredient_analysis[2].status

\* C7: when match_ingredient returns a catalog name r, by the similarity
\* scan or by the token fallback, match_ingredient(r) is r again.
C7_MatchIdempotent ==
    (Returned("match_ingredient") /\ match_result \in Range(ingredients_list))
        => match_ingredient(match_result, ingredients_list, threshold) = match_result

\* a catalog name found by the token fallback for a different input
C7_Witness ==
    /\ Returned("match_ingredient")
    /\ threshold = DefaultThreshold
    /\ ingredient = red
    /\ match_result = red_tea
    /\ Len(ingredients_list) = 2
    /\ ingredients_list[2] = red_tea

\* evaluate_nutrition has returned nutrition_pros and nutrition_cons
NutritionEvaluated ==
    \/ Returned("evaluate_nutrition")
    \/ scenario = "analyze_product" /\ pc \in {"analyzed", "returned"}

\* evaluate_nutrition has been called and has returned or raised
NutritionCalled == scenario \in {"evaluate_nutrition", "analyze_product"} /\ pc # "call"

PresentValue(i) ==
    /\ nutrition_df[i].nutrient \in DOMAIN nutrition_input
    /\ nutrition_input[nutrition_df[i].nutrient].kind # "none"

PresentRows == {i \in 1..Len(nutrition_df) : PresentValue(i)}

RECURSIVE Ascending(_)
Ascending(S) ==
    IF S = {} THEN <<>>
    ELSE LET m == CHOOSE x \in S : \A y \in S : y <= x
         IN  Append(Ascending(S \ {m}), m)

\* pros are the Balanced findings of the rows P, cons the Low / High
\* findings of the rows C, both in table order
FindingsOfRows(P, C) ==
    LET ps == Ascending(P)
        cs == Ascending(C)
    IN  /\ Len(nutrition_pros) = Len(ps)
        /\ Len(nutrition_cons) = Len(cs)
        /\ \A k \in 1..Len(ps) :
              nutrition_pros[k] = <<"Balanced", nutrition_df[ps[k]].nutrient>>
        /\ \A k \in 1..Len(cs) :
              /\ nutrition_cons[k][1] \in {"Low", "High"}
              /\ nutrition_cons[k][2] = nutrition_df[cs[k]].nutrient
              /\ nutrition_cons[k][3] = nutrition_df[cs[k]].note

\* every present, non-null row gives exactly one finding, the others none
OneFindingPerRow == \E P \in SUBSET PresentRows : FindingsOfRows(P, PresentRows \ P)

NutrientsOf(texts) == {texts[k][2] : k \in 1..Len(texts)}

NoNutrientInBoth == NutrientsOf(nutrition_pros) \cap NutrientsOf(nutrition_cons) = {}

TableKeyed ==
    \A i, j \in 1..Len(nutrition_df) :
        nutrition_df[i].nutrient = nutrition_df[j].nutrient => i = j

\* C8 as stated: whatever the threshold table, no nutrient is in both lists
C8_NeverProAndCon ==
    NutritionEvaluated => (NoNutrientInBoth /\ OneFindingPerRow)

\* C8: every threshold entry whose nutrient is present and non-null yields
\* exactly one finding (Low / High con or Balanced pro), the others none,
\* pros and cons follow table order; when the table has one entry per
\* nutrient, no nutrient is in both pros and cons.
C8_OneFindingPerEntry ==
    NutritionEvaluated => (OneFindingPerRow /\ (TableKeyed => NoNutrientInBoth))

\* a con from the first entry, a pro from the second
C8_Witness ==
    /\ Returned("evaluate_nutrition")
    /\ TableKeyed
    /\ Len(nutrition_df) = 2
    /\ nutrition_df[1].nutrient = "sugar_g"
    /\ Len(nutrition_cons) = 1 /\ nutrition_cons[1][2] = "sugar_g"
    /\ Len(nutrition_pros) = 1 /\ nutrition_pros[1][2] = "sodium_mg"

\* C9: with an empty catalog and an empty threshold table the analysis
\* raises nothing, every ingredient comes back unchanged as unknown with
\* reason "No information available", pros and cons are empty, and the two
\* sub-scores are 5.0.
C9_EmptyCatalogAndTable ==
    (scenario = "analyze_product" /\ pc # "call"
        /\ ingredient_safety_df = <<>> /\ nutrition_df = <<>>)
        => /\ pc # "raised"
           /\ ingredient_analysis =
                 [i \in 1..Len(ingredients_input) |->
                     [name |-> ingredients_input[i], status |-> "unknown",
                      reason |-> NoInformation]]
           /\ nutrition_pros = <<>>
           /\ nutrition_cons = <<>>
           /\ pc = "returned" => (ingr_score = 500 /\ nutri_score = 500)

C9_Witness ==
    /\ Returned("analyze_product")
    /\ ingredient_safety_df = <<>> /\ nutrition_df = <<>>
    /\ Len(ingredients_input) >= 2
    /\ "sugar_g" \in DOMAIN nutrition_input
    /\ nutrition_input["sugar_g"].kind = "str"
    /\ ingr_score = 500 /\ nutri_score = 500

HasDigit(t) == \E i \in 1..Len(t) : t[i] \in Digits

StringRow(i) ==
    /\ nutrition_df[i].nutrient \in DOMAIN nutrition_input
    /\ nutrition_input[nutrition_df[i].nutrient].kind = "str"

NoNumberRow(i) == StringRow(i) /\ ~HasDigit(nutrition_input[nutrition_df[i].nutrient].s)

\* C10: a string value without a numeric substring for a nutrient that has
\* a threshold entry makes the whole call raise, with no partial pros/cons,
\* whatever was classified before; a call only raises when some nutrient
\* with a threshold entry has a string value.
C10_UnparsableValueRaises ==
    NutritionCalled =>
        /\ (\E i \in 1..Len(nutrition_df) : NoNumberRow(i))
              => (pc = "raised" /\ error # "none"
                    /\ nutrition_pros = <<>> /\ nutrition_cons = <<>>)
        /\ pc = "raised" => \E i \in 1..Len(nutrition_df) : StringRow(i)

\* the second entry raises after the first was classified
C10_Witness ==
    /\ scenario = "evaluate_nutrition" /\ pc = "raised"
    /\ Len(nutrition_df) = 2
    /\ PresentValue(1) /\ ~StringRow(1)
    /\ NoNumberRow(2)
    /\ error = "IndexError"

\* similarity of the normalised input and the normalised i-th catalog name
ScoreOf(i) == fuzz_ratio(clean_text(ingredient), clean_text(ingredients_list[i]))

\* the first index achieving the maximum similarity (the list is not empty)
FirstMaximum ==
    CHOOSE i \in 1..Len(ingredients_list) :
        /\ \A j \in 1..Len(ingredients_list) : ~FracGt(ScoreOf(j), ScoreOf(i))
        /\ \A j \in 1..(i - 1) : FracGt(ScoreOf(i), ScoreOf(j))

SharesToken(i) ==
    Range(Tokens(clean_text(ingredient)))
        \cap Range(Tokens(clean_text(ingredients_list[i]))) # {}

FirstSharing ==
    CHOOSE i \in 1..Len(ingredients_list) :
        SharesToken(i) /\ \A j \in 1..(i - 1) : ~SharesToken(j)

\* the result the three phases prescribe
PrescribedMatch ==
    IF ingredients_list # <<>> /\ FracGeInt(ScoreOf(FirstMaximum), threshold)
    THEN ingredients_list[FirstMaximum]
    ELSE IF \E i \in 1..Len(ingredients_list) : SharesToken(i)
         THEN ingredients_list[FirstSharing]
         ELSE ingredient

\* C11: for every input, catalog and threshold in 0..100, match_ingredient
\* returns the first catalog name achieving the maximum similarity when that
\* maximum is >= threshold, otherwise the first catalog name sharing a token
\* with the input, otherwise the input unchanged; the result is always a
\* catalog name or the input itself.
C11_MatchContract ==
    Returned("match_ingredient") =>
        /\ match_result = PrescribedMatch
        /\ match_result \in Range(ingredients_list) \cup {ingredient}

\* the same contract for thresholds 1..100, where a maximum that reaches the
\* threshold is positive and has been recorded by the scan
C11_MatchContractPositiveThreshold ==
    (Returned("match_ingredient") /\ threshold >= 1) =>
        /\ match_result = PrescribedMatch
        /\ match_result \in Range(ingredients_list) \cup {ingredient}

\* threshold 0 and no positive similarity: the scan recorded no name and
\* the function returns None
C11_Witness ==
    /\ Returned("match_ingredient")
    /\ threshold = 0
    /\ ingredients_list # <<>>
    /\ match_result = None

\* the similarity phase wins over an earlier entry that only shares a token
C11_SimilarityFirst ==
    /\ Returned("match_ingredient")
    /\ threshold = DefaultThreshold
    /\ Len(ingredients_list) = 2
    /\ SharesToken(1)
    /\ match_result = ingredients_list[2]
    /\ ingredients_list[1] # ingredients_list[2]

SnapshotSupplied == ~nutrition_info.is_none

SnapshotKeys == {"sugar_g", "sodium_mg", "total_fat_g", "protein_g"}

\* 5.0 + 0.5 * |pros| - 0.7 * |cons|, clamped to [0, 10], in hundredths
ProsConsFormula ==
    LET raw == 500 + 50 * Len(nutrition_pros) - 70 * Len(nutrition_cons)
    IN  IF raw < 0 THEN 0 ELSE IF raw > 1000 THEN 1000 ELSE raw

\* the amount of a key in the supplied snapshot, 0 when absent or None
Amount(key) ==
    IF key \in DOMAIN nutrition_info.items /\ nutrition_info.items[key] >= 0
    THEN nutrition_info.items[key]
    ELSE 0

Capped(x, cap) == IF x < cap THEN x ELSE cap

\* 5 - min(sugar/10, 2.5) - min(sodium/500, 2) - min(fat/10, 1.5)
\*   + min(protein/5, 2), clamped to [0, 10], in five-hundredths
SnapshotExact ==
    LET raw == 2500 - Capped(50 * Amount("sugar_g"), 1250)
                    - Capped(Amount("sodium_mg"), 1000)
                    - Capped(50 * Amount("total_fat_g"), 750)
                    + Capped(100 * Amount("protein_g"), 1000)
    IN  IF raw < 0 THEN 0 ELSE Capped(raw, 5000)

\* nutri_score is the snapshot formula rounded to two decimals; 5.0 when the
\* snapshot holds none of the four keys
SnapshotFormula ==
    /\ 5 * nutri_score - SnapshotExact \in -2..2
    /\ DOMAIN nutrition_info.items \cap SnapshotKeys = {} => nutri_score = 500

\* analyze_product returns no snapshot: its score is that of the pros/cons
FromModel2Output ==
    Returned("analyze_product") =>
        (~SnapshotSupplied /\ nutri_score = ProsConsFormula)

\* C12 as stated: every supplied snapshot, the empty one included, selects
\* the snapshot formula
C12_SnapshotWheneverSupplied ==
    Scored =>
        /\ IF SnapshotSupplied THEN SnapshotFormula ELSE nutri_score = ProsConsFormula
        /\ FromModel2Output

\* C12: the nutrition sub-score is the numeric-snapshot formula whenever a
\* non-empty snapshot is supplied (absent keys count 0, a snapshot with none
\* of the four keys scores 5.0, pros/cons have no influence), and the
\* pros/cons formula 5.0 + 0.5*|pros| - 0.7*|cons| (clamped) when the
\* snapshot is None or empty; the score of analyze_product's dictionary is
\* always that of its pros/cons.
C12_SnapshotWhenNonEmpty ==
    Scored =>
        /\ IF SnapshotSupplied /\ DOMAIN nutrition_info.items # {}
           THEN SnapshotFormula
           ELSE nutri_score = ProsConsFormula
        /\ FromModel2Output

\* a snapshot with none of the four keys, next to pros and cons that would
\* have scored 5.3
C12_Witness ==
    /\ Returned("compute_safety_score")
    /\ SnapshotSupplied
    /\ DOMAIN nutrition_info.items = {"calories"}
    /\ ProsConsFormula = 530
    /\ nutri_score = 500

====
